---------------------------- MODULE Spec2Model ----------------------------
(***************************************************************************)
(* Model of the move codec (src-tauri/src/db/encoding.rs) and of the       *)
(* puzzle cache (src-tauri/src/puzzle.rs) of en-croissant.                 *)
(*                                                                         *)
(* Spec      : the process-wide PUZZLE_CACHE driven by get_puzzle calls.   *)
(* CodecSpec : encode_move / decode_move / decode_moves applied to the     *)
(*             positions of a small rules engine.                          *)
(***************************************************************************)
EXTENDS Integers, Sequences, FiniteSets, TLC

VARIABLES
    PUZZLE_CACHE,   \* the PuzzleCache behind the mutex: cache, counter, min_rating, max_rating
    poisoned,       \* the mutex was poisoned by a panic of a thread that held it
    call,           \* history: the last get_puzzle call, its arguments and what it did
    epoch,          \* history: the store's answer to the last refill and what was served since
    run,            \* history: length of the run of requests with one window on a full store
    chess,          \* CodecSpec: the position the codec is called with
    ret,            \* CodecSpec: the last codec call and its result
    tick,           \* RetrySpec: history, the parity of the number of requests
    pc,             \* ThreadSpec: where each thread is in get_puzzle
    local,          \* ThreadSpec: the arguments and local variables of each thread
    mutex           \* ThreadSpec: the thread that holds the guard of PUZZLE_CACHE, or 0

vars == <<PUZZLE_CACHE, poisoned, call, epoch, run, chess, ret, tick, pc, local, mutex>>

(***************************************************************************)
(* Bounds of the model.                                                    *)
(***************************************************************************)
\* random orders the store can answer with: seeds 0..MaxSeed
MaxSeed == 1
\* rows of the puzzles table of the first store
Rows1 == 35
\* rows of the puzzles table of the second store
Rows2 == 5
\* requests of a constant-window run that are counted
MaxRun == 41
\* plies of a byte sequence given to decode_moves
MaxPlies == 4
\* bytes 0..MaxIndex, and 255, make up those sequences
MaxIndex == 4
\* threads that call get_puzzle concurrently
NumThreads == 2

(***************************************************************************)
(* Program constants.                                                      *)
(***************************************************************************)
\* `.limit(20)` and `self.counter >= 20`
Capacity == 20

\* i32::MAX
MaxI32 == 2147483647

\* A usize rating is wider than the integers at hand: n is the pair
\* <<n div 2^31, n mod 2^31>>.
U(n) == <<0, n>>

\* a <= b for two usize
Leq(a, b) == a[1] < b[1] \/ (a[1] = b[1] /\ a[2] <= b[2])

\* `max_rating as i32`: the low 32 bits, read as two's complement: the
\* low 31 bits, less 2^31 if bit 31 is set
AsI32(n) == IF n[1] % 2 = 0 THEN n[2] ELSE (n[2] - MaxI32) - 1

(***************************************************************************)
(* The puzzle store: sqlite files with a puzzles table.                    *)
(***************************************************************************)
Store1 == "puzzles1.db3"
Store2 == "puzzles2.db3"
\* a path in which no database can be opened: establish(file) fails
Unopenable == "missing/puzzles.db3"
\* a database that opens and has no puzzles table: the query fails
NoTable == "games.db3"

Files == {Store1, Store2, Unopenable, NoTable}

\* rating windows a caller asks for: <<min_rating, max_rating>>
Windows ==
    { <<U(0), U(0)>>, <<U(1000), U(1200)>>, <<U(1200), U(1400)>>,
      <<U(1500), U(1500)>>, <<U(1600), U(1700)>>, <<U(1400), U(1200)>>,
      \* 2^32 + 1000 .. 2^32 + 1200
      <<<<2, 1000>>, <<2, 1200>>>> }

Seeds == 0..MaxSeed

\* Puzzle rows: the id and the rating (fen, moves, rating_deviation,
\* popularity and nb_plays are carried along unread by the cache).
Rating1(i) ==
    IF i <= 12 THEN 1100
    ELSE IF i <= 22 THEN 1200
    ELSE IF i <= 32 THEN 1300
    ELSE 1500

Rating2(i) ==
    IF i <= 3 THEN 1100
    ELSE IF i = 4 THEN 1200
    ELSE 1650

Table(file) ==
    IF file = Store1 THEN [i \in 1..Rows1 |-> [id |-> i, rating |-> Rating1(i)]]
    ELSE IF file = Store2 THEN [i \in 1..Rows2 |-> [id |-> 100 + i, rating |-> Rating2(i)]]
    ELSE <<>>

\* SqliteConnection::establish(file) succeeds
CanEstablish(file) == file # Unopenable

\* .load::<Puzzle>(&mut db) returns Ok
CanLoad(file) == file # NoTable

Rotate(s, k) ==
    IF Len(s) = 0 THEN s
    ELSE [i \in 1..Len(s) |-> s[((i - 1 + k) % Len(s)) + 1]]

Take(s, n) == IF Len(s) <= n THEN s ELSE SubSeq(s, 1, n)

\* filter(rating <= max as i32).filter(rating >= min as i32)
\*   .order(RANDOM()).limit(20): the rows in the window, in the order the
\* seed gives, the first 20 of them.
Sample(file, min_rating, max_rating, seed) ==
    LET InWindow(p) == p.rating <= AsI32(max_rating) /\ p.rating >= AsI32(min_rating)
    IN  Take(Rotate(SelectSeq(Table(file), InWindow), seed), Capacity)

(***************************************************************************)
(* The rules engine the codec calls (shakmaty): positions, the ordered     *)
(* list of legal moves, playing a move, its notation.  A corner of chess:  *)
(* the pieces on e2, f2, g2, g1 (white) and e7, b8, d8 (black), the white  *)
(* king on e1 behind them.                                                 *)
(***************************************************************************)
Squares ==
    {"e2", "e4", "f2", "f3", "g2", "g3", "g4", "g1",
     "e7", "e5", "b8", "c6", "d8", "h4"}

\* Chess::default(): white to move
Default ==
    [board |-> [sq \in Squares |->
                    CASE sq \in {"e2", "f2", "g2"} -> "P"
                      [] sq = "g1" -> "N"
                      [] sq = "e7" -> "p"
                      [] sq = "b8" -> "n"
                      [] sq = "d8" -> "q"
                      [] OTHER -> "."],
     turn |-> "w"]

Normal(role, from, to, capture) ==
    [role |-> role, from |-> from, to |-> to, capture |-> capture]

\* the moves the engine generates, in its order, before legality
Steps(turn) ==
    IF turn = "w"
    THEN << <<"Pawn", "f2", "f3">>, <<"Pawn", "e2", "e4">>, <<"Pawn", "g2", "g3">>,
            <<"Pawn", "g2", "g4">>, <<"Knight", "g1", "f3">>, <<"Knight", "f3", "e5">> >>
    ELSE << <<"Pawn", "e7", "e5">>, <<"Knight", "b8", "c6">>, <<"Queen", "d8", "h4">>,
            <<"Knight", "c6", "e5">> >>

PieceOf(turn, role) ==
    LET c == CASE role = "Pawn" -> "P" [] role = "Knight" -> "N" [] OTHER -> "Q"
    IN  IF turn = "w" THEN c
        ELSE CASE c = "P" -> "p" [] c = "N" -> "n" [] OTHER -> "q"

RoleOf(piece) ==
    CASE piece \in {"P", "p"} -> "Pawn"
      [] piece \in {"N", "n"} -> "Knight"
      [] piece \in {"Q", "q"} -> "Queen"
      [] OTHER -> ""

Own(turn) == IF turn = "w" THEN {"P", "N", "Q"} ELSE {"p", "n", "q"}

Other(turn) == IF turn = "w" THEN "b" ELSE "w"

\* every move the engine can ever produce
AllMoves ==
    { Normal(st[1], st[2], st[3], c) :
        st \in { Steps("w")[i] : i \in 1..Len(Steps("w")) }
               \cup { Steps("b")[i] : i \in 1..Len(Steps("b")) },
        c \in {"", "Pawn", "Knight"} }

\* Position::play_unchecked
Play(pos, m) ==
    [board |-> [pos.board EXCEPT ![m.from] = ".", ![m.to] = pos.board[m.from]],
     turn |-> Other(pos.turn)]

\* the king of the side to move is attacked: the black queen on h4 looks
\* at e1 through g3 and f2
InCheck(pos) ==
    /\ pos.turn = "w"
    /\ pos.board["h4"] = "q"
    /\ pos.board["g3"] = "."
    /\ pos.board["f2"] = "."

\* the step can be made on the board: the piece stands on its square, a
\* pawn steps onto an empty square, a piece onto an empty or an enemy one,
\* the queen's diagonal is open
PseudoLegal(pos, st) ==
    /\ pos.board[st[2]] = PieceOf(pos.turn, st[1])
    /\ pos.board[st[3]] \notin Own(pos.turn)
    /\ st[1] = "Pawn" => pos.board[st[3]] = "."
    /\ st[1] = "Queen" => pos.board["e7"] = "."

\* Position::legal_moves: the steps that can be made and do not leave the
\* mover's king attacked, in the engine's order
legal_moves(pos) ==
    LET AsMove(st) == Normal(st[1], st[2], st[3], RoleOf(pos.board[st[3]]))
        Legal(st) ==
            /\ PseudoLegal(pos, st)
            /\ ~InCheck([Play(pos, AsMove(st)) EXCEPT !.turn = pos.turn])
        steps == SelectSeq(Steps(pos.turn), Legal)
    IN  [i \in 1..Len(steps) |-> AsMove(steps[i])]

\* SanPlus::from_move: the notation of m in pos, with the suffix for check
\* or mate in the position after it
San(pos, m) ==
    LET after == Play(pos, m)
        letter == CASE m.role = "Knight" -> "N" [] m.role = "Queen" -> "Q" [] OTHER -> ""
        takes == IF m.capture = "" THEN "" ELSE "x"
        suffix == IF ~InCheck(after) THEN ""
                  ELSE IF Len(legal_moves(after)) = 0 THEN "#" ELSE "+"
    IN  letter \o takes \o m.to \o suffix

(***************************************************************************)
(* The move codec.                                                         *)
(***************************************************************************)
\* u8::MAX
MaxByte == 255

\* a search that counts the elements from 1
position_from_one(moves, m) ==
    LET hits == {i \in 1..Len(moves) : moves[i] = m}
    IN  IF hits = {} THEN <<>>
        ELSE <<CHOOSE i \in hits : \A j \in hits : i <= j>>

\* Iterator::position: the 0-based index of the first element equal to m,
\* as an Option
position(moves, m) ==
    LET hits == {i \in 1..Len(moves) : moves[i] = m}
    IN  IF hits = {} THEN <<>>
        ELSE <<(CHOOSE i \in hits : \A j \in hits : i <= j) - 1>>

\* encode_move: unwrap() panics on None; `as u8` keeps the low 8 bits
encode_move(m, pos) ==
    LET moves == legal_moves(pos)
        found == position(moves, m)
    IN  IF found = <<>>
        THEN [status |-> "Panic", out |-> 0]
        ELSE [status |-> "Ok", out |-> found[1] % (MaxByte + 1)]

\* a decode that takes the byte for an index that starts at 1
decode_move_from_one(byte, pos) ==
    LET moves == legal_moves(pos)
    IN  IF byte >= 1 /\ byte <= Len(moves) THEN <<moves[byte]>> ELSE <<>>

\* decode_move: legal_moves.get(byte as usize).cloned()
decode_move(byte, pos) ==
    LET moves == legal_moves(pos)
    IN  IF byte < Len(moves) THEN <<moves[byte + 1]>> ELSE <<>>

\* moves.join(" ")
RECURSIVE join(_)
join(moves) ==
    IF Len(moves) = 0 THEN ""
    ELSE IF Len(moves) = 1 THEN moves[1]
    ELSE moves[1] \o " " \o join(Tail(moves))

\* a loop that formats every move and never plays it
RECURSIVE decode_loop_no_play(_, _, _)
decode_loop_no_play(pos, moves, rest) ==
    IF Len(rest) = 0
    THEN [status |-> "Ok", out |-> join(moves), moves |-> moves, chess |-> pos]
    ELSE LET m == decode_move(Head(rest), pos)
         IN  IF m = <<>>
             THEN [status |-> "Panic", out |-> "", moves |-> moves, chess |-> pos]
             ELSE decode_loop_no_play(pos, Append(moves, San(pos, m[1])), Tail(rest))

\* the loop of decode_moves: pos is the running position, moves the
\* notations so far, rest the bytes still to decode; unwrap() panics on a
\* byte that decodes to None
RECURSIVE decode_loop(_, _, _)
decode_loop(pos, moves, rest) ==
    IF Len(rest) = 0
    THEN [status |-> "Ok", out |-> join(moves), moves |-> moves, chess |-> pos]
    ELSE LET m == decode_move(Head(rest), pos)
         IN  IF m = <<>>
             THEN [status |-> "Panic", out |-> "", moves |-> moves, chess |-> pos]
             ELSE decode_loop(Play(pos, m[1]), Append(moves, San(pos, m[1])), Tail(rest))

\* decode_moves
decode_moves(moves_bytes) == decode_loop(Default, <<>>, moves_bytes)

(***************************************************************************)
(* PuzzleCache.                                                            *)
(***************************************************************************)
\* PuzzleCache::new
New == [cache |-> <<>>, counter |-> 0, min_rating |-> U(0), max_rating |-> U(0)]

\* a refill condition that forgets the served count
NeedsRefillNoCapacity(self, min_rating, max_rating) ==
    \/ Len(self.cache) = 0
    \/ self.min_rating # min_rating
    \/ self.max_rating # max_rating

\* a refill condition that is one request late
NeedsRefillLate(self, min_rating, max_rating) ==
    \/ Len(self.cache) = 0
    \/ self.min_rating # min_rating
    \/ self.max_rating # max_rating
    \/ self.counter > Capacity

\* a refill condition that trusts an empty batch
NeedsRefillNoEmpty(self, min_rating, max_rating) ==
    \/ self.min_rating # min_rating
    \/ self.max_rating # max_rating
    \/ self.counter >= Capacity

\* the condition of get_puzzles
NeedsRefill(self, min_rating, max_rating) ==
    \/ Len(self.cache) = 0
    \/ self.min_rating # min_rating
    \/ self.max_rating # max_rating
    \/ self.counter >= Capacity

\* a refill that keeps the served count of the old batch
ClearKeepCounter(self) == [self EXCEPT !.cache = <<>>]

\* self.cache.clear(); self.counter = 0
Clear(self) == [self EXCEPT !.cache = <<>>, !.counter = 0]

\* self.cache = new_puzzles.into_iter().collect(); the window is recorded
Install(self, new_puzzles, min_rating, max_rating) ==
    [self EXCEPT !.cache = new_puzzles,
                 !.min_rating = min_rating,
                 !.max_rating = max_rating]

\* a refill that queries the store before it clears the batch
get_puzzles_query_first(self, file, min_rating, max_rating, seed) ==
    IF NeedsRefill(self, min_rating, max_rating)
    THEN IF ~CanEstablish(file)
         THEN [self |-> self, status |-> "Panic", sampled |-> TRUE]
         ELSE IF ~CanLoad(file)
         THEN [self |-> self, status |-> "Err", sampled |-> TRUE]
         ELSE [self |-> Install(Clear(self), Sample(file, min_rating, max_rating, seed),
                                min_rating, max_rating),
               status |-> "Ok", sampled |-> TRUE]
    ELSE [self |-> self, status |-> "Ok", sampled |-> FALSE]

\* PuzzleCache::get_puzzles: the cache afterwards, how the call ended
\* ("Ok", "Err": the query's error returned by `?`, "Panic": expect("open
\* database") failed) and whether it went to the store.
get_puzzles(self, file, min_rating, max_rating, seed) ==
    IF NeedsRefill(self, min_rating, max_rating)
    THEN IF ~CanEstablish(file)
         THEN [self |-> Clear(self), status |-> "Panic", sampled |-> TRUE]
         ELSE IF ~CanLoad(file)
         THEN [self |-> Clear(self), status |-> "Err", sampled |-> TRUE]
         ELSE [self |-> Install(Clear(self), Sample(file, min_rating, max_rating, seed),
                                min_rating, max_rating),
               status |-> "Ok", sampled |-> TRUE]
    ELSE [self |-> self, status |-> "Ok", sampled |-> FALSE]

\* a serve that does not advance the served count
get_next_puzzle_no_increment(self) ==
    IF self.counter < Len(self.cache)
    THEN [self |-> self, ret |-> <<self.cache[self.counter + 1]>>]
    ELSE [self |-> self, ret |-> <<>>]

\* a serve that starts the batch over when it is exhausted
get_next_puzzle_wrap(self) ==
    IF self.counter < Len(self.cache)
    THEN [self |-> [self EXCEPT !.counter = self.counter + 1],
          ret |-> <<self.cache[self.counter + 1]>>]
    ELSE IF Len(self.cache) > 0
    THEN [self |-> [self EXCEPT !.counter = 1], ret |-> <<self.cache[1]>>]
    ELSE [self |-> self, ret |-> <<>>]

\* a serve that counts a request even when it has nothing to serve
get_next_puzzle_always_increment(self) ==
    [self |-> [self EXCEPT !.counter = self.counter + 1],
     ret |-> IF self.counter < Len(self.cache)
             THEN <<self.cache[self.counter + 1]>>
             ELSE <<>>]

\* PuzzleCache::get_next_puzzle: an Option is a sequence of length 0 or 1
get_next_puzzle(self) ==
    IF self.counter < Len(self.cache)
    THEN [self |-> [self EXCEPT !.counter = self.counter + 1],
          ret |-> <<self.cache[self.counter + 1]>>]
    ELSE [self |-> self, ret |-> <<>>]

NoCall ==
    [file |-> "", min_rating |-> U(0), max_rating |-> U(0), pre |-> New,
     locked |-> FALSE, sampled |-> FALSE, status |-> "None", ret |-> <<>>]

\* no refill has happened, or the last one got no answer from the store
NoEpoch == [file |-> "", loaded |-> FALSE, batch |-> <<>>, served |-> <<>>]

\* every sample of the store for the window has 20 puzzles
FullStore(file, min_rating, max_rating) ==
    /\ CanEstablish(file)
    /\ CanLoad(file)
    /\ \A s \in Seeds : Len(Sample(file, min_rating, max_rating, s)) = Capacity

\* the run of requests since the start that all used one store and one
\* window for which the store is full; -1 once it is broken or too long
NextRun(file, min_rating, max_rating) ==
    IF /\ run >= 0
       /\ run < MaxRun
       /\ FullStore(file, min_rating, max_rating)
       /\ run > 0 => /\ call.file = file
                     /\ call.min_rating = min_rating
                     /\ call.max_rating = max_rating
    THEN run + 1
    ELSE -1

\* no codec call is under way.  A call records its function (op), its
\* arguments (m, byte, bytes), how it ended (status) and its result: the
\* byte of encode_move, the Option<Move> of decode_move (move), the string
\* of decode_moves (out) with its Vec of notations (moves) and its running
\* position (chess) at the end.
NoRet ==
    [op |-> "", m |-> Normal("", "", "", ""), byte |-> 0, bytes |-> <<>>,
     status |-> "", move |-> <<>>, out |-> "", moves |-> <<>>, chess |-> Default]

Threads == 1..NumThreads

\* a thread outside get_puzzle has no arguments and no local variables
NoLocal ==
    [file |-> "", min_rating |-> U(0), max_rating |-> U(0),
     new_puzzles |-> <<>>, puzzle |-> <<>>]

\* get_puzzle(file, min_rating, max_rating); seed is the order RANDOM()
\* gives the rows if the store is queried.
get_puzzle(file, min_rating, max_rating, seed) ==
    /\ run' = NextRun(file, min_rating, max_rating)
    /\ IF poisoned
       THEN \* PUZZLE_CACHE.lock().unwrap() panics on the poisoned mutex
            /\ call' = [NoCall EXCEPT !.file = file, !.min_rating = min_rating,
                                      !.max_rating = max_rating, !.pre = PUZZLE_CACHE,
                                      !.status = "Panic"]
            /\ UNCHANGED <<PUZZLE_CACHE, poisoned, epoch>>
       ELSE LET got == get_puzzles(PUZZLE_CACHE, file, min_rating, max_rating, seed)
                nxt == get_next_puzzle(got.self)
                args == [NoCall EXCEPT !.file = file, !.min_rating = min_rating,
                                       !.max_rating = max_rating, !.pre = PUZZLE_CACHE,
                                       !.locked = TRUE, !.sampled = got.sampled]
                \* what the store answered, if it was asked and did answer
                loaded == got.sampled /\ CanEstablish(file) /\ CanLoad(file)
                answer == IF loaded THEN Sample(file, min_rating, max_rating, seed) ELSE <<>>
            IN  IF got.status # "Ok"
                THEN \* the panic unwinds with the guard held; `?` returns the error
                     /\ PUZZLE_CACHE' = got.self
                     /\ poisoned' = (got.status = "Panic")
                     /\ call' = [args EXCEPT !.status = got.status]
                     /\ epoch' = [NoEpoch EXCEPT !.file = file]
                ELSE /\ PUZZLE_CACHE' = nxt.self
                     /\ poisoned' = FALSE
                     /\ call' = [args EXCEPT
                                    !.status = IF nxt.ret = <<>> THEN "NoPuzzles" ELSE "Ok",
                                    !.ret = nxt.ret]
                     /\ epoch' = IF got.sampled
                                 THEN [file |-> file, loaded |-> loaded,
                                       batch |-> answer, served |-> nxt.ret]
                                 ELSE [epoch EXCEPT !.served = epoch.served \o nxt.ret]

Init ==
    /\ PUZZLE_CACHE = New
    /\ poisoned = FALSE
    /\ call = NoCall
    /\ epoch = NoEpoch
    /\ run = 0
    /\ chess = Default
    /\ ret = NoRet
    /\ tick = 0
    /\ pc = [t \in Threads |-> "idle"]
    /\ local = [t \in Threads |-> NoLocal]
    /\ mutex = 0

codecVars == <<chess, ret>>

threadVars == <<pc, local, mutex>>

Next ==
    /\ \E file \in Files, w \in Windows, seed \in Seeds :
          get_puzzle(file, w[1], w[2], seed)
    /\ UNCHANGED <<codecVars, tick, threadVars>>

Spec == Init /\ [][Next]_vars

(***************************************************************************)
(* RetrySpec: a caller that keeps calling get_puzzle and, when a request   *)
(* fails with NoPuzzles, retries it with the same store and window.        *)
(***************************************************************************)
Request(file, min_rating, max_rating, seed) ==
    /\ get_puzzle(file, min_rating, max_rating, seed)
    /\ tick' = 1 - tick
    /\ UNCHANGED <<codecVars, threadVars>>

FreshRequest ==
    /\ call.status # "NoPuzzles"
    /\ \E file \in Files, w \in Windows, seed \in Seeds :
          Request(file, w[1], w[2], seed)

Retry ==
    /\ call.status = "NoPuzzles"
    /\ \E seed \in Seeds :
          Request(call.file, call.min_rating, call.max_rating, seed)

RetryNext == FreshRequest \/ Retry

RetrySpec == Init /\ [][RetryNext]_vars /\ WF_vars(RetryNext)

(***************************************************************************)
(* ThreadSpec: threads run get_puzzle concurrently, one statement at a     *)
(* time.  pc[t] names the statement thread t executes next:                *)
(*   "idle"            outside get_puzzle                                  *)
(*   "lock"            PUZZLE_CACHE.lock().unwrap()            line 78     *)
(*   "get_puzzles"     the condition, clear and reset          lines 40-46 *)
(*   "establish"       SqliteConnection::establish             line 48     *)
(*   "load"            the puzzles query                       lines 49-54 *)
(*   "install"         the new batch and window                lines 56-58 *)
(*   "get_next_puzzle" self.cache.get(self.counter)            line 65     *)
(*   "increment"       self.counter += 1 and the return        lines 66-67 *)
(* The guard is dropped when get_puzzle returns or unwinds.                *)
(***************************************************************************)
otherVars == <<call, run, tick, codecVars>>

\* a mutex that does not exclude
CanLockAlways(t) == TRUE

\* lock() blocks while another thread holds the guard
CanLock(t) == mutex = 0

Goto(t, label) == pc' = [pc EXCEPT ![t] = label]

\* the guard is dropped and the call is over
Leave(t) ==
    /\ Goto(t, "idle")
    /\ local' = [local EXCEPT ![t] = NoLocal]
    /\ mutex' = 0

Call(t) ==
    /\ pc[t] = "idle"
    /\ Goto(t, "lock")
    /\ UNCHANGED <<PUZZLE_CACHE, poisoned, epoch, local, mutex, otherVars>>

Lock(t) ==
    /\ pc[t] = "lock"
    /\ CanLock(t)
    /\ IF poisoned
       THEN \* unwrap() panics on the PoisonError, its guard is dropped
            /\ Goto(t, "idle")
            /\ mutex' = 0
            /\ UNCHANGED local
       ELSE /\ Goto(t, "get_puzzles")
            /\ mutex' = t
            /\ \E file \in Files, w \in Windows :
                  local' = [local EXCEPT ![t] = [NoLocal EXCEPT !.file = file,
                                                               !.min_rating = w[1],
                                                               !.max_rating = w[2]]]
    /\ UNCHANGED <<PUZZLE_CACHE, poisoned, epoch, otherVars>>

Check(t) ==
    /\ pc[t] = "get_puzzles"
    /\ IF NeedsRefill(PUZZLE_CACHE, local[t].min_rating, local[t].max_rating)
       THEN /\ PUZZLE_CACHE' = Clear(PUZZLE_CACHE)
            /\ epoch' = [NoEpoch EXCEPT !.file = local[t].file]
            /\ Goto(t, "establish")
       ELSE /\ Goto(t, "get_next_puzzle")
            /\ UNCHANGED <<PUZZLE_CACHE, epoch>>
    /\ UNCHANGED <<poisoned, local, mutex, otherVars>>

Establish(t) ==
    /\ pc[t] = "establish"
    /\ IF CanEstablish(local[t].file)
       THEN /\ Goto(t, "load")
            /\ UNCHANGED <<poisoned, local, mutex>>
       ELSE \* expect("open database") panics with the guard held
            /\ poisoned' = TRUE
            /\ Leave(t)
    /\ UNCHANGED <<PUZZLE_CACHE, epoch, otherVars>>

Load(t) ==
    /\ pc[t] = "load"
    /\ IF CanLoad(local[t].file)
       THEN /\ \E seed \in Seeds :
                  local' = [local EXCEPT ![t].new_puzzles =
                               Sample(local[t].file, local[t].min_rating,
                                      local[t].max_rating, seed)]
            /\ Goto(t, "install")
            /\ UNCHANGED mutex
       ELSE \* `?` returns the error
            Leave(t)
    /\ UNCHANGED <<PUZZLE_CACHE, poisoned, epoch, otherVars>>

InstallBatch(t) ==
    /\ pc[t] = "install"
    /\ PUZZLE_CACHE' = Install(PUZZLE_CACHE, local[t].new_puzzles,
                               local[t].min_rating, local[t].max_rating)
    /\ epoch' = [file |-> local[t].file, loaded |-> TRUE,
                 batch |-> local[t].new_puzzles, served |-> <<>>]
    /\ Goto(t, "get_next_puzzle")
    /\ UNCHANGED <<poisoned, local, mutex, otherVars>>

GetNext(t) ==
    /\ pc[t] = "get_next_puzzle"
    /\ LET found == get_next_puzzle(PUZZLE_CACHE).ret
       IN  IF found # <<>>
           THEN /\ local' = [local EXCEPT ![t].puzzle = found]
                /\ Goto(t, "increment")
                /\ UNCHANGED mutex
           ELSE \* None: get_puzzle returns Error::NoPuzzles
                Leave(t)
    /\ UNCHANGED <<PUZZLE_CACHE, poisoned, epoch, otherVars>>

Increment(t) ==
    /\ pc[t] = "increment"
    /\ PUZZLE_CACHE' = [PUZZLE_CACHE EXCEPT !.counter = PUZZLE_CACHE.counter + 1]
    /\ epoch' = [epoch EXCEPT !.served = epoch.served \o local[t].puzzle]
    /\ Leave(t)
    /\ UNCHANGED <<poisoned, otherVars>>

ThreadNext ==
    \E t \in Threads :
        \/ Call(t)
        \/ Lock(t)
        \/ Check(t)
        \/ Establish(t)
        \/ Load(t)
        \/ InstallBatch(t)
        \/ GetNext(t)
        \/ Increment(t)

ThreadSpec == Init /\ [][ThreadNext]_vars

(***************************************************************************)
(* CodecSpec: a game is played from the initial position; in every         *)
(* position the codec is called with any move and any byte, and            *)
(* decode_moves, which starts from the initial position by itself, with    *)
(* any short byte sequence.                                                *)
(***************************************************************************)
Bytes == 0..MaxByte

SampleBytes == (0..MaxIndex) \cup {MaxByte}

ByteSeqs == UNION { [1..n -> SampleBytes] : n \in 0..MaxPlies }

cacheVars == <<PUZZLE_CACHE, poisoned, call, epoch, run, tick, threadVars>>

\* chess.play_unchecked(&m), as the test does between two round trips
PlayMove ==
    /\ ret = NoRet
    /\ \E i \in 1..Len(legal_moves(chess)) :
          chess' = Play(chess, legal_moves(chess)[i])
    /\ UNCHANGED <<ret, cacheVars>>

EncodeMove ==
    /\ ret = NoRet
    /\ \E m \in AllMoves :
          LET r == encode_move(m, chess)
          IN  ret' = [NoRet EXCEPT !.op = "encode_move", !.m = m,
                                   !.status = r.status, !.byte = r.out]
    /\ UNCHANGED <<chess, cacheVars>>

DecodeMove ==
    /\ ret = NoRet
    /\ \E byte \in Bytes :
          ret' = [NoRet EXCEPT !.op = "decode_move", !.byte = byte,
                               !.status = "Ok", !.move = decode_move(byte, chess)]
    /\ UNCHANGED <<chess, cacheVars>>

DecodeMoves ==
    /\ ret = NoRet
    /\ chess = Default
    /\ \E bytes \in ByteSeqs :
          LET r == decode_moves(bytes)
          IN  ret' = [NoRet EXCEPT !.op = "decode_moves", !.bytes = bytes,
                                   !.status = r.status, !.out = r.out,
                                   !.moves = r.moves, !.chess = r.chess]
    /\ UNCHANGED <<chess, cacheVars>>

\* the caller takes the result
Return ==
    /\ ret # NoRet
    /\ ret' = NoRet
    /\ UNCHANGED <<chess, cacheVars>>

CodecNext == PlayMove \/ EncodeMove \/ DecodeMove \/ DecodeMoves \/ Return

CodecSpec == Init /\ [][CodecNext]_vars

(***************************************************************************)
(* Claims about the move codec, checked under CodecSpec.                   *)
(***************************************************************************)

\* m is a member of the legal-move list of pos
IsLegal(m, pos) == \E i \in 1..Len(legal_moves(pos)) : legal_moves(pos)[i] = m

e2e4 == Normal("Pawn", "e2", "e4", "")

e7e5 == Normal("Pawn", "e7", "e5", "")

\* C1: for a move m of the legal-move list of the position, encode_move
\* succeeds with a byte b, and decode_move(b, position) is Some(m).
C1_RoundTrip ==
    (ret.op = "encode_move" /\ IsLegal(ret.m, chess)) =>
        /\ ret.status = "Ok"
        /\ ret.byte \in 0..255
        /\ decode_move(ret.byte, chess) = <<ret.m>>

\* the second round trip of test_encoding: e7-e5 after e2-e4
C1_Witness ==
    /\ chess = Play(Default, e2e4)
    /\ ret.op = "encode_move"
    /\ ret.m = e7e5
    /\ ret.status = "Ok"
    /\ ret.byte = 0

\* C2: decode_move(byte, p) is Some(the move at index byte of the
\* legal-move list of p) when byte is less than the length of the list and
\* None otherwise, for every byte 0..255 and every position, without a
\* panic or an error.
C2_DecodeBoundary ==
    ret.op = "decode_move" =>
        LET n == Len(legal_moves(chess))
        IN  /\ ret.status = "Ok"
            /\ ret.byte < n => ret.move = <<legal_moves(chess)[ret.byte + 1]>>
            /\ ret.byte >= n => ret.move = <<>>

\* byte 0 decoded to None in a checkmate, where no move is legal
C2_Witness ==
    /\ ret.op = "decode_move"
    /\ InCheck(chess)
    /\ Len(legal_moves(chess)) = 0
    /\ ret.byte = 0
    /\ ret.move = <<>>

\* C3: encode_move with a move that is not in the legal-move list of the
\* position returns an InvalidMove error; it does not panic.
C3_InvalidMove ==
    (ret.op = "encode_move" /\ ~IsLegal(ret.m, chess)) =>
        ret.status = "InvalidMove"

\* the position after the first n bytes, each taken as an index into the
\* legal-move list of the position before it
RECURSIVE PositionAfter(_, _)
PositionAfter(bytes, n) ==
    IF n = 0 THEN Default
    ELSE LET before == PositionAfter(bytes, n - 1)
         IN  Play(before, legal_moves(before)[bytes[n] + 1])

\* each of the first n bytes is an index into the legal-move list at its ply
RECURSIVE ValidPrefix(_, _)
ValidPrefix(bytes, n) ==
    \/ n = 0
    \/ /\ ValidPrefix(bytes, n - 1)
       /\ bytes[n] < Len(legal_moves(PositionAfter(bytes, n - 1)))

\* the notation of ply i (from 1), against the position before it
NotationAt(bytes, i) ==
    LET before == PositionAfter(bytes, i - 1)
    IN  San(before, legal_moves(before)[bytes[i] + 1])

\* the first n notations with a space between neighbours
RECURSIVE Spaced(_, _)
Spaced(bytes, n) ==
    IF n = 0 THEN ""
    ELSE IF n = 1 THEN NotationAt(bytes, 1)
    ELSE Spaced(bytes, n - 1) \o " " \o NotationAt(bytes, n)

\* C4: decode_moves of a sequence with a byte that does not decode at its
\* ply fails with CorruptGameData; it does not panic.
C4_CorruptGameData ==
    (ret.op = "decode_moves" /\ ~ValidPrefix(ret.bytes, Len(ret.bytes))) =>
        ret.status = "CorruptGameData"

\* C5: decode_moves of a sequence in which every byte is a valid index at
\* its ply returns, from the initial position, the notation of each decoded
\* move against the position before it, in ply order with single spaces,
\* one notation per byte, each move played before the next byte is
\* decoded; the empty sequence gives the empty string and leaves the
\* position where it started.
C5_Replay ==
    (ret.op = "decode_moves" /\ ValidPrefix(ret.bytes, Len(ret.bytes))) =>
        /\ ret.status = "Ok"
        /\ Len(ret.moves) = Len(ret.bytes)
        /\ \A i \in 1..Len(ret.bytes) : ret.moves[i] = NotationAt(ret.bytes, i)
        /\ ret.out = Spaced(ret.bytes, Len(ret.bytes))
        /\ ret.chess = PositionAfter(ret.bytes, Len(ret.bytes))
        /\ ret.bytes = <<>> => (ret.out = "" /\ ret.chess = Default)

\* the bytes of e2e4, e7e5, Ng1f3, Nb8c6 decoded to "e4 e5 Nf3 Nc6"
C5_Witness ==
    /\ ret.op = "decode_moves"
    /\ ret.bytes = <<1, 0, 3, 0>>
    /\ ret.status = "Ok"
    /\ ret.out = "e4 e5 Nf3 Nc6"

(***************************************************************************)
(* Claims about the puzzle cache, checked under Spec.                      *)
(***************************************************************************)

\* the request asked for the window recorded on the cache when it started
SameWindow ==
    /\ call.pre.min_rating = call.min_rating
    /\ call.pre.max_rating = call.max_rating

C7_QueryRate ==
    run >= 1 => (call.sampled <=> run % 20 = 1)

\* the 21st request of such a run caused the second sample
C7_Witness ==
    /\ run = 21
    /\ call.sampled
    /\ call.status = "Ok"

\* the request refilled and the store answered
Refilled == call.sampled /\ call.status \in {"Ok", "NoPuzzles"}

\* the request asked for another window while unserved puzzles remained
WindowChange ==
    /\ ~SameWindow
    /\ call.pre.counter < Len(call.pre.cache)

\* C8 as stated: a successful refill replaces the batch with the store's
\* sample (at most 20), resets the served count and records the window,
\* and a request that changes the window while unserved puzzles remain
\* serves index 0 of the new batch, leaving the served count at 1.
C8_AsStated ==
    /\ Refilled =>
          /\ PUZZLE_CACHE.cache = epoch.batch
          /\ Len(PUZZLE_CACHE.cache) <= 20
          /\ PUZZLE_CACHE.min_rating = call.min_rating
          /\ PUZZLE_CACHE.max_rating = call.max_rating
    /\ (Refilled /\ WindowChange) =>
          /\ call.status = "Ok"
          /\ call.ret = <<PUZZLE_CACHE.cache[1]>>
          /\ PUZZLE_CACHE.counter = 1

\* C8 amended: a successful refill replaces the batch with the store's
\* sample (at most 20), resets the served count (it is then the number of
\* puzzles this request served) and records the window; if the sample is
\* not empty the request serves index 0 of the new batch and the served
\* count is 1, if it is empty the request fails with NoPuzzles and the
\* served count is 0; every puzzle served by this or a later request is
\* the one at the served index of the newest sample.
C8_RefillEffect ==
    /\ Refilled =>
          /\ PUZZLE_CACHE.cache = epoch.batch
          /\ Len(PUZZLE_CACHE.cache) <= 20
          /\ PUZZLE_CACHE.min_rating = call.min_rating
          /\ PUZZLE_CACHE.max_rating = call.max_rating
          /\ PUZZLE_CACHE.counter = Len(call.ret)
          /\ Len(epoch.batch) > 0 =>
                /\ call.status = "Ok"
                /\ call.ret = <<epoch.batch[1]>>
                /\ PUZZLE_CACHE.counter = 1
          /\ Len(epoch.batch) = 0 =>
                /\ call.status = "NoPuzzles"
                /\ PUZZLE_CACHE.counter = 0
    /\ call.status = "Ok" =>
          /\ PUZZLE_CACHE.counter \in 1..Len(epoch.batch)
          /\ call.ret = <<epoch.batch[PUZZLE_CACHE.counter]>>

\* after 5 puzzles served under [1000,1200] a request under [1200,1400]
\* refilled and served the first puzzle of the new batch
C8_Witness ==
    /\ Refilled
    /\ call.pre.min_rating = U(1000) /\ call.pre.max_rating = U(1200)
    /\ call.pre.counter = 5
    /\ Len(call.pre.cache) = 20
    /\ call.min_rating = U(1200) /\ call.max_rating = U(1400)
    /\ call.status = "Ok"
    /\ PUZZLE_CACHE.counter = 1
    /\ PUZZLE_CACHE.cache # call.pre.cache

\* C9: within an epoch the k-th successful request returns the puzzle at
\* index k-1 of the batch the store gave at the refill, and the served
\* count is the number of puzzles served in the epoch.
C9_ExactlyOnce ==
    /\ Len(epoch.served) <= Len(epoch.batch)
    /\ epoch.served = SubSeq(epoch.batch, 1, Len(epoch.served))
    /\ PUZZLE_CACHE.counter = Len(epoch.served)
    /\ call.status = "Ok" => call.ret = <<epoch.batch[Len(epoch.served)]>>

\* the third puzzle of an epoch was served by a request that did not refill
C9_Witness ==
    /\ call.status = "Ok"
    /\ ~call.sampled
    /\ Len(epoch.served) = 3
    /\ Len(epoch.batch) = 20

\* C10: when the store's sample had k < 20 puzzles and k were served, the
\* next request under the same window (to the same store, if k = 0) fails
\* with NoPuzzles, returns no puzzle and leaves the served count as it is.
C10_ShortBatch ==
    [][ ( /\ epoch.loaded
          /\ Len(epoch.batch) < 20
          /\ Len(epoch.served) = Len(epoch.batch)
          /\ call'.min_rating = PUZZLE_CACHE.min_rating
          /\ call'.max_rating = PUZZLE_CACHE.max_rating
          /\ Len(epoch.batch) = 0 => call'.file = epoch.file )
        => ( /\ call'.status = "NoPuzzles"
             /\ call'.ret = <<>>
             /\ PUZZLE_CACHE'.counter = PUZZLE_CACHE.counter ) ]_vars

\* the store had 3 puzzles for the window and the 4th request failed
C10_Witness ==
    /\ call.status = "NoPuzzles"
    /\ ~call.sampled
    /\ SameWindow
    /\ Len(call.pre.cache) = 3
    /\ call.pre.counter = 3
    /\ PUZZLE_CACHE.counter = 3

\* C11: a request that needs a refill from a store whose connection cannot
\* be opened returns a StoreUnavailable error, and the cache stays usable.
C11_StoreUnavailable ==
    (call.locked /\ call.sampled /\ ~CanEstablish(call.file)) =>
        /\ call.status = "StoreUnavailable"
        /\ ~poisoned

\* C12: a request with min_rating > max_rating fails with an
\* InvalidRatingWindow error and serves no puzzle.
C12_InvalidRatingWindow ==
    (call.locked /\ ~Leq(call.min_rating, call.max_rating)) =>
        /\ call.status = "InvalidRatingWindow"
        /\ call.ret = <<>>

\* C14: there is no terminal state: every request, also one made after a
\* request that failed, is accepted (it gets hold of the cache) and
\* completes with a puzzle or an error value.
C14_NoTerminalState ==
    call.status # "None" => call.locked

\* C15: when the query of a refill returns an error the request returns
\* it, the batch is empty and the served count 0; the next request goes to
\* the store whatever its window; a puzzle served later is one of a sample
\* taken after the failure.
C15_NoStaleBatch ==
    [][ /\ (call'.locked /\ call'.sampled /\ CanEstablish(call'.file)
               /\ ~CanLoad(call'.file)) => call'.status = "Err"
        /\ call'.status = "Err" =>
              /\ Len(PUZZLE_CACHE'.cache) = 0
              /\ PUZZLE_CACHE'.counter = 0
              /\ call'.ret = <<>>
        /\ call.status = "Err" => (call'.locked /\ call'.sampled)
        /\ call'.status = "Ok" =>
              /\ epoch'.loaded
              /\ PUZZLE_CACHE'.counter \in 1..Len(epoch'.batch)
              /\ call'.ret = <<epoch'.batch[PUZZLE_CACHE'.counter]>> ]_vars

\* the query failed while the cache held puzzles that were not served yet
C15_Witness ==
    /\ call.status = "Err"
    /\ call.sampled
    /\ call.pre.counter < Len(call.pre.cache)
    /\ Len(PUZZLE_CACHE.cache) = 0

CounterInvariant(self) ==
    /\ 0 <= self.counter
    /\ self.counter <= Len(self.cache)
    /\ Len(self.cache) <= 20

\* C16: always 0 <= served count <= size of the batch <= 20; a request
\* that refills leaves the served count at the number of puzzles it served
\* (the reset to 0, then its serve), any other request adds the number of
\* puzzles it served (1 if it succeeded, else 0).
C16_Counter ==
    [][ /\ CounterInvariant(PUZZLE_CACHE)
        /\ CounterInvariant(PUZZLE_CACHE')
        /\ Len(call'.ret) = (IF call'.status = "Ok" THEN 1 ELSE 0)
        /\ call'.sampled => PUZZLE_CACHE'.counter = Len(call'.ret)
        /\ ~call'.sampled =>
              PUZZLE_CACHE'.counter = PUZZLE_CACHE.counter + Len(call'.ret) ]_vars

\* a request failed on a batch of 3 puzzles that were all served, and the
\* served count stayed 3
C16_Witness ==
    /\ call.status = "NoPuzzles"
    /\ ~call.sampled
    /\ Len(PUZZLE_CACHE.cache) = 3
    /\ PUZZLE_CACHE.counter = 3
    /\ call.pre.counter = 3

\* the rows of the puzzles table of the store
RowsOf(file) == { Table(file)[i] : i \in 1..Len(Table(file)) }

\* C17: the rating of a puzzle a request returns lies in the window of
\* that request: min_rating <= rating <= max_rating.
C17_RatingInWindow ==
    call.status = "Ok" =>
        /\ Leq(call.min_rating, U(call.ret[1].rating))
        /\ Leq(U(call.ret[1].rating), call.max_rating)

\* C18: a puzzle a request returns is a row of the store the request named.
C18_SameStore ==
    call.status = "Ok" => call.ret[1] \in RowsOf(call.file)

\* C20: when the store's sample is empty the request fails with NoPuzzles
\* and leaves an empty batch and served count 0, and the next request
\* under that window goes to the store again.
C20_EmptySample ==
    [][ (call.locked /\ call.sampled /\ epoch.loaded /\ Len(epoch.batch) = 0) =>
          /\ call.status = "NoPuzzles"
          /\ Len(PUZZLE_CACHE.cache) = 0
          /\ PUZZLE_CACHE.counter = 0
          /\ (call'.min_rating = call.min_rating /\ call'.max_rating = call.max_rating)
                => (call'.locked /\ call'.sampled) ]_vars

\* two requests in a row under one valid window went to a store that has
\* no puzzle in it
C20_Witness ==
    /\ call.sampled
    /\ call.status = "NoPuzzles"
    /\ epoch.loaded
    /\ SameWindow
    /\ call.min_rating = U(1600)
    /\ call.max_rating = U(1700)
    /\ call.pre.counter = 0
    /\ Len(call.pre.cache) = 0

(***************************************************************************)
(* Claim about retries, checked under RetrySpec.                           *)
(***************************************************************************)

\* a request has just failed on a batch of 1..19 puzzles that were all
\* served, and it named the store the batch came from
ShortBatchExhausted ==
    /\ call.status = "NoPuzzles"
    /\ epoch.loaded
    /\ epoch.file = call.file
    /\ Len(PUZZLE_CACHE.cache) >= 1
    /\ Len(PUZZLE_CACHE.cache) < 20
    /\ PUZZLE_CACHE.counter = Len(PUZZLE_CACHE.cache)

\* C19: once a batch of 1..19 puzzles is fully served, a caller that
\* retries with the same window eventually gets a puzzle again.
C19_RetrySucceeds == ShortBatchExhausted ~> (call.status = "Ok")

(***************************************************************************)
(* Claim about concurrent requests, checked under ThreadSpec.              *)
(***************************************************************************)

\* thread t is between taking the guard and dropping it
InRequest(t) ==
    pc[t] \in {"get_puzzles", "establish", "load", "install",
               "get_next_puzzle", "increment"}

\* thread t has cleared the batch and not yet installed the new one
InRefill(t) == pc[t] \in {"establish", "load", "install"}

\* thread t reads the batch and the counter, or is about to add 1 to it
Observes(t) == pc[t] \in {"get_puzzles", "get_next_puzzle", "increment"}

IsPrefix(s, b) == Len(s) <= Len(b) /\ s = SubSeq(b, 1, Len(s))

\* C13: the refill decision, store query, batch replacement and serve of a
\* request are one critical section: a thread is inside only with the
\* guard, no two threads are inside together, so no two refills overlap,
\* no thread reads the batch or increments the counter while another one
\* replaces it, and the puzzles served from one batch are its first
\* entries, each index returned once.
C13_MutualExclusion ==
    /\ \A t \in Threads : InRequest(t) <=> mutex = t
    /\ \A t, u \in Threads :
          t # u => /\ ~(InRequest(t) /\ InRequest(u))
                   /\ ~(InRefill(t) /\ InRefill(u))
                   /\ ~(Observes(t) /\ InRefill(u))
    /\ (\A t \in Threads : ~InRefill(t)) =>
          /\ PUZZLE_CACHE.counter = Len(epoch.served)
          /\ IsPrefix(epoch.served, PUZZLE_CACHE.cache)
          /\ epoch.loaded => PUZZLE_CACHE.cache = epoch.batch
    /\ \A i, j \in 1..Len(epoch.served) :
          i # j => epoch.served[i] # epoch.served[j]

\* a thread is about to add 1 to the counter of a batch that already served
\* a puzzle, and another thread waits for the guard
C13_Witness ==
    \E t, u \in Threads :
        /\ t # u
        /\ pc[t] = "increment"
        /\ pc[u] = "lock"
        /\ Len(epoch.served) >= 1

=============================================================================
